---- MODULE Spec2Model ----
(***************************************************************************)
(* TaaraESP-SHT21-EmonCMS.ino: one boot cycle of the sensor node, run      *)
(* again after every deep-sleep wake or reset.  setup() is cut into steps  *)
(* at its blocking calls; the button, the operator at the configuration    *)
(* portal, the WiFi network and the EmonCMS server are the environment.    *)
(*                                                                         *)
(* Bytes are numbers 0..255; a char array is a sequence of bytes; the      *)
(* CONFIG struct is the 73 contiguous bytes host[40] apikey[33].           *)
(* Sensor readings are held in thousandths (23450 is 23.45).               *)
(* millis() is the variable now; it advances in delay() and in the         *)
(* library's timed waits only.  A cycle of the model lasts less than half  *)
(* an hour, so the 32-bit counter (49 days) never wraps and the unsigned   *)
(* differences millis() - start are plain differences.                     *)
(***************************************************************************)
EXTENDS Integers, Sequences, FiniteSets, TLC

VARIABLES
  pc,             \* position in setup(); "halted" after deepSleep / reset
  now,            \* millis()
  led,            \* level of pin LED
  button,         \* level of pin BUTTON (environment)
  attended,       \* an operator is at the device during this cycle (environment)
  save,           \* global flag set by the saveConfig callback
  conf,           \* global CONFIG conf, as its 73 bytes
  eedata,         \* RAM buffer of the EEPROM object
  flash,          \* the flash sector behind the EEPROM object
  custom_host,    \* value held by WiFiManagerParameter custom_host
  custom_apikey,  \* value held by WiFiManagerParameter custom_apikey
  wmTimeout,      \* WiFiManager portal timeout, seconds (0: none)
  start,          \* local start of setup() (button window)
  portalStart,    \* start of the running configuration portal
  blinkStart,     \* local start of blink()
  sleepUs,        \* microseconds handed to ESP.deepSleep in this cycle (0: not called)
  humidity,       \* local humidity of setup()
  temperature,    \* local temperature of setup()
  request,        \* what client.connect / client.print were given
  ok,             \* local ok of setup()
  rx,             \* bytes received and not yet read by the client
  line,           \* the String readStringUntil is filling
  srvLine,        \* server side: the line being sent so far starts with ...
  srvOk,          \* server side: some line sent so far begins with ok
  gaps,           \* read timeouts taken in this cycle
  lowInFirstSecond, \* BUTTON was LOW at some instant with millis() < 1000
  entered,        \* what the operator last typed into the portal form
  lastSaved,      \* what the operator had typed for the last committed record
  sensor,         \* what the SHT21 reports in this cycle (environment)
  events          \* the calls setup() has made in this cycle, in order

cfgVars  == <<save, conf, eedata, flash, custom_host, custom_apikey, wmTimeout>>
timeVars == <<now, start, portalStart, blinkStart, sleepUs>>
sensVars == <<sensor, humidity, temperature>>
netVars  == <<request, ok, rx, line>>
srvVars  == <<srvLine, srvOk, gaps>>
userVars == <<button, attended, lowInFirstSecond, entered, lastSaved>>
vars == <<pc, led, events, cfgVars, timeVars, sensVars, netVars, srvVars, userVars>>

----------------------------------------------------------------------------
(* Bounds of the model *)

MaxPortalTicks == 2   \* waits modelled inside a portal that has no timeout
PortalTick == 200000  \* ms that pass in one modelled wait inside a portal
MaxRx == 2            \* bytes the client buffers unread
MaxLine == 2          \* characters of a line the String keeps
MaxGaps == 1          \* read timeouts in one cycle after which the server is silent

(* Program constants *)

HostCap == 40         \* char host[40]
ApikeyCap == 33       \* char apikey[33]
EepromSize == 100     \* EEPROM.begin(100)
interval == 5         \* const int interval
ReadTimeoutMs == 1000 \* Stream timeout of readStringUntil
MaxInt32 == 2147483647 \* largest int of the ESP8266 build

NUL == 0
ERASED == 255
LF == "\n"

Add32(t, d) == t + d                   \* millis() after d more milliseconds
Elapsed(t, s) == t - s                 \* unsigned long millis() - start

\* the product of two non-negative ints as 32-bit int arithmetic gives it: the
\* low 32 bits of the product, read as a signed number.  The product is built
\* from 16-bit and 8-bit parts so that no intermediate value leaves 32 bits.
Mul32(a, b) ==
  LET ah == a \div 65536
      al == a % 65536
      bh == b \div 65536
      bl == b % 65536
      q  == (al \div 256) * bl
      r  == (al % 256) * bl
      lo == ((q % 256) * 256) + (r % 65536)
      hi == ((ah * bl) % 65536) + ((al * bh) % 65536) + (q \div 256) + (r \div 65536)
              + (lo \div 65536)
      h  == hi % 65536
  IN  ((IF h >= 32768 THEN h - 65536 ELSE h) * 65536) + (lo % 65536)

Rep(c, n) == [i \in 1..n |-> c]
Take(s, n) == SubSeq(s, 1, IF Len(s) < n THEN Len(s) ELSE n)

----------------------------------------------------------------------------
(* C strings and the CONFIG struct *)

HostOff == 0                           \* offsetof(CONFIG, host)
ApikeyOff == HostOff + HostCap         \* offsetof(CONFIG, apikey)
ConfigSize == HostCap + ApikeyCap      \* sizeof(CONFIG)

\* the C string that starts at offset off of mem: the bytes before the first
\* NUL; a string with no NUL is read to the end of the struct
CStrAt(mem, off) ==
  LET nuls == {i \in (off + 1)..Len(mem) : mem[i] = NUL}
      end  == IF nuls = {} THEN Len(mem)
              ELSE (CHOOSE i \in nuls : \A j \in nuls : i <= j) - 1
  IN  SubSeq(mem, off + 1, end)

\* strcpy(dst, src) for dst at offset off of mem: the characters of src and the
\* terminating NUL, the later bytes of mem left as they were
StrCpyAt(mem, off, src) ==
  [i \in 1..Len(mem) |->
     IF i > off /\ i <= off + Len(src) THEN src[i - off]
     ELSE IF i = off + Len(src) + 1 THEN NUL
     ELSE mem[i]]

\* EEPROM.get<CONFIG>(0, conf): the struct's bytes from the buffer at offset 0
EepromGet(buf) == SubSeq(buf, 1, ConfigSize)

\* EEPROM.put<CONFIG>(0, conf): the struct's bytes into the buffer at offset 0
EepromPut(buf, c) ==
  [i \in 1..Len(buf) |-> IF i <= ConfigSize THEN c[i] ELSE buf[i]]

\* EEPROM.commit() left out: the flash sector keeps what it held
EepromCommitLost(buf, fl) == fl

\* EEPROM.commit(): the buffer is written to the flash sector
EepromCommit(buf, fl) == buf

\* WiFiManagerParameter(id, placeholder, defaultValue, length):
\* strncpy(_value, defaultValue, length)
ParamInit(mem, off, length) == Take(CStrAt(mem, off), length)

\* the portal's form handler: value.toCharArray(_value, length) keeps at most
\* length - 1 characters
ParamSet(typed, length) == Take(typed, length - 1)

----------------------------------------------------------------------------
(* Text *)

Digit(d) == CASE d = 0 -> "0" [] d = 1 -> "1" [] d = 2 -> "2" [] d = 3 -> "3"
              [] d = 4 -> "4" [] d = 5 -> "5" [] d = 6 -> "6" [] d = 7 -> "7"
              [] d = 8 -> "8" [] d = 9 -> "9" [] d = 10 -> "A" [] d = 11 -> "B"
              [] d = 12 -> "C" [] d = 13 -> "D" [] d = 14 -> "E" [] d = 15 -> "F"

\* sprintf "%02X" of one byte
Hex2(b) == Digit(b \div 16) \o Digit(b % 16)

\* sprintf(mac, "%02X%02X%02X%02X%02X%02X", m[0], ..., m[5])
MacText(m) == Hex2(m[1]) \o Hex2(m[2]) \o Hex2(m[3]) \o Hex2(m[4]) \o Hex2(m[5]) \o Hex2(m[6])

RECURSIVE Decimal(_)
Decimal(n) == IF n < 10 THEN Digit(n) ELSE Decimal(n \div 10) \o Digit(n % 10)

\* String(float) as used by url += temperature: two decimals, rounded half away
\* from zero (v is in thousandths)
FloatText(v) ==
  LET a == (IF v < 0 THEN -v ELSE v) + 5
      f == (a % 1000) \div 10
  IN  (IF v < 0 THEN "-" ELSE "") \o Decimal(a \div 1000) \o "."
        \o Digit(f \div 10) \o Digit(f % 10)

Chr(b) == CASE b = 97 -> "a" [] b = 98 -> "b" [] b = 99 -> "c" [] b = 100 -> "d"
            [] b = 101 -> "e" [] b = 102 -> "f" [] b = 104 -> "h" [] b = 107 -> "k"
            [] OTHER -> "?"

\* a C string appended to a String
Text(s) ==
  LET t[i \in 0..Len(s)] == IF i = 0 THEN "" ELSE t[i - 1] \o Chr(s[i])
  IN  t[Len(s)]

UrlHead(c) == "/input/post.json?node=1&apikey=" \o Text(CStrAt(c, ApikeyOff)) \o "&json="

\* lines 191-201, with the readings the wrong way round
UrlSwapped(c, m, t, h) ==
  UrlHead(c) \o "{" \o MacText(m) \o ".T:" \o FloatText(h) \o "," \o MacText(m)
    \o ".H:" \o FloatText(t) \o "}"

\* lines 191-201
Url(c, m, t, h) ==
  UrlHead(c) \o "{" \o MacText(m) \o ".T:" \o FloatText(t) \o "," \o MacText(m)
    \o ".H:" \o FloatText(h) \o "}"

\* line.startsWith("ok")
StartsWithOk(l) == Len(l) >= 2 /\ l[1] = "o" /\ l[2] = "k"

\* line += c; the model keeps the first MaxLine characters
LineAdd(l, c) == IF Len(l) < MaxLine THEN Append(l, c) ELSE l

----------------------------------------------------------------------------
(* blink(times), lines 63-74 *)

\* one pass of the while body: times short blinks, then delay(1000)
BlinkPass(times) == times * (100 + 100) + 1000

\* the limit of the while loop, one minute too long
BlinkLimitSix == Mul32(Mul32(6, 60), 1000)

BlinkLimit == Mul32(Mul32(5, 60), 1000)

\* the passes the while loop makes when entered at millis() = s: the test
\* millis() - start < 5 * 60 * 1000 is made before each pass, so the loop is
\* left before the first pass that would begin at or after the limit
BlinkPasses(times) ==
  CHOOSE k \in 0..BlinkLimit :
    /\ k * BlinkPass(times) >= BlinkLimit
    /\ \A j \in 0..(k - 1) : j * BlinkPass(times) < BlinkLimit

\* millis() when the while loop of blink() is left
BlinkLoop(t, s, times) ==
  IF Elapsed(t, s) < BlinkLimit
  THEN Add32(t, BlinkPasses(times) * BlinkPass(times))
  ELSE t

----------------------------------------------------------------------------
(* Inputs *)

\* (temperature, humidity) the sensor may report, in thousandths
Readings == { [T |-> 23450, H |-> 56100], [T |-> -5204, H |-> 99996] }

\* WiFi MAC addresses
Macs == { <<170, 187, 204, 221, 238, 255>>, <<0, 1, 10, 43, 9, 160>> }

\* what an operator may type into the two fields of the portal form
Entries == { [host |-> <<104>>,                key |-> <<107>>],
             [host |-> Rep(97, HostCap - 1),   key |-> Rep(98, ApikeyCap - 1)],
             [host |-> Rep(99, HostCap + 1),   key |-> Rep(100, ApikeyCap)] }

\* bytes the server may send
Alphabet == {"o", "k", LF}

None == [host |-> <<ERASED>>, key |-> <<ERASED>>]   \* nothing typed / saved yet

NoRequest == [connectHost |-> <<>>, mac |-> <<>>, url |-> "", hostHeader |-> "", sent |-> 0]

Did(e) == \E i \in 1..Len(events) : events[i] = e
Count(e) == Cardinality({i \in 1..Len(events) : events[i] = e})
Log(es) == events' = events \o es

----------------------------------------------------------------------------
(* The state at power-on: RAM as the C runtime leaves it, flash as it is *)

Fresh(fl, saved) ==
  /\ pc = "setup" /\ now = 0 /\ led = "LOW" /\ button = "HIGH"
  /\ attended \in BOOLEAN
  /\ save = FALSE /\ conf = Rep(NUL, ConfigSize) /\ eedata = <<>> /\ flash = fl
  /\ custom_host = <<>> /\ custom_apikey = <<>> /\ wmTimeout = 0
  /\ start = 0 /\ portalStart = 0 /\ blinkStart = 0 /\ sleepUs = 0
  /\ sensor \in Readings /\ humidity = 0 /\ temperature = 0
  /\ request = NoRequest /\ ok = FALSE /\ rx = <<>> /\ line = <<>>
  /\ srvLine = "bol" /\ srvOk = FALSE /\ gaps = 0
  /\ lowInFirstSecond = FALSE /\ entered = None /\ lastSaved = saved
  /\ events = <<>>

Init == Fresh(Rep(ERASED, EepromSize), None)

----------------------------------------------------------------------------
(* setup(), lines 76-242 *)

\* lines 77-83 without digitalWrite(LED, HIGH)
SetupBeginLedOff ==
  /\ pc = "setup"
  /\ now' = Add32(now, 10)
  /\ pc' = "measure"
  /\ UNCHANGED <<led, events, cfgVars, start, portalStart, blinkStart, sleepUs, sensVars, netVars,
                 srvVars, userVars>>

\* lines 77-83
SetupBegin ==
  /\ pc = "setup"
  /\ now' = Add32(now, 10)
  /\ led' = "HIGH"
  /\ pc' = "measure"
  /\ UNCHANGED <<events, cfgVars, start, portalStart, blinkStart, sleepUs, sensVars, netVars,
                 srvVars, userVars>>

\* lines 85-89 with a second attempt at the humidity
MeasureRetry ==
  /\ pc = "measure"
  /\ humidity' = sensor.H
  /\ temperature' = sensor.T
  /\ Log(<<"readHumidity", "readHumidity", "readTemperature">>)
  /\ pc' = "load"
  /\ UNCHANGED <<led, cfgVars, timeVars, sensor, netVars, srvVars, userVars>>

\* lines 85-89
Measure ==
  /\ pc = "measure"
  /\ humidity' = sensor.H
  /\ temperature' = sensor.T
  /\ Log(<<"readHumidity", "readTemperature">>)
  /\ pc' = "load"
  /\ UNCHANGED <<led, cfgVars, timeVars, sensor, netVars, srvVars, userVars>>

\* lines 104-128 without wifiManager.setTimeout(300): the library's default is
\* no timeout
LoadConfigNoTimeout ==
  /\ pc = "load"
  /\ eedata' = flash
  /\ conf' = EepromGet(flash)
  /\ custom_host' = ParamInit(conf', HostOff, HostCap)
  /\ custom_apikey' = ParamInit(conf', ApikeyOff, ApikeyCap)
  /\ start' = now
  /\ Log(<<"eepromGet", "buttonWindow">>)
  /\ pc' = "window"
  /\ UNCHANGED <<led, save, flash, wmTimeout, now, portalStart, blinkStart, sleepUs, sensVars,
                 netVars, srvVars, userVars>>

\* lines 104-128
LoadConfig ==
  /\ pc = "load"
  /\ eedata' = flash
  /\ conf' = EepromGet(flash)
  /\ custom_host' = ParamInit(conf', HostOff, HostCap)
  /\ custom_apikey' = ParamInit(conf', ApikeyOff, ApikeyCap)
  /\ wmTimeout' = 300
  /\ start' = now
  /\ Log(<<"eepromGet", "buttonWindow">>)
  /\ pc' = "window"
  /\ UNCHANGED <<led, save, flash, now, portalStart, blinkStart, sleepUs, sensVars, netVars,
                 srvVars, userVars>>

\* lines 130-138 without wifiManager.setTimeout(0)
WindowCheckKeepTimeout ==
  /\ pc = "window"
  /\ IF Elapsed(now, start) < 1000
     THEN IF button = "LOW"
          THEN /\ portalStart' = now
               /\ Log(<<"buttonLow", "startConfigPortal">>)
               /\ pc' = "configPortal"
          ELSE /\ pc' = "windowDelay"
               /\ UNCHANGED <<portalStart, events>>
     ELSE /\ pc' = "saveCheck"
          /\ UNCHANGED <<portalStart, events>>
  /\ UNCHANGED <<led, cfgVars, now, start, blinkStart, sleepUs, sensVars, netVars, srvVars,
                 userVars>>

\* lines 130-138: the loop condition and digitalRead(BUTTON)
WindowCheck ==
  /\ pc = "window"
  /\ IF Elapsed(now, start) < 1000
     THEN IF button = "LOW"
          THEN /\ wmTimeout' = 0
               /\ portalStart' = now
               /\ Log(<<"buttonLow", "setTimeout0", "startConfigPortal">>)
               /\ pc' = "configPortal"
          ELSE /\ pc' = "windowDelay"
               /\ UNCHANGED <<wmTimeout, portalStart, events>>
     ELSE /\ pc' = "saveCheck"
          /\ UNCHANGED <<wmTimeout, portalStart, events>>
  /\ UNCHANGED <<led, save, conf, eedata, flash, custom_host, custom_apikey, now, start,
                 blinkStart, sleepUs, sensVars, netVars, srvVars, userVars>>

\* line 139
WindowDelay ==
  /\ pc = "windowDelay"
  /\ now' = Add32(now, 100)
  /\ pc' = "window"
  /\ UNCHANGED <<led, events, cfgVars, start, portalStart, blinkStart, sleepUs, sensVars, netVars,
                 srvVars, userVars>>

\* lines 145-156 with the test of the save flag left out
SaveCheckAlways ==
  /\ pc = "saveCheck"
  /\ conf' = StrCpyAt(StrCpyAt(conf, HostOff, custom_host), ApikeyOff, custom_apikey)
  /\ eedata' = EepromPut(eedata, conf')
  /\ flash' = EepromCommit(eedata', flash)
  /\ now' = Add32(now, 10)
  /\ lastSaved' = entered
  /\ Log(<<"eepromCommit">>)
  /\ pc' = "autoConnect"
  /\ UNCHANGED <<led, save, custom_host, custom_apikey, wmTimeout, start, portalStart,
                 blinkStart, sleepUs, sensVars, netVars, srvVars, button, attended,
                 lowInFirstSecond, entered>>

\* lines 145-156
SaveCheck ==
  /\ pc = "saveCheck"
  /\ IF save
     THEN /\ conf' = StrCpyAt(StrCpyAt(conf, HostOff, custom_host), ApikeyOff, custom_apikey)
          /\ eedata' = EepromPut(eedata, conf')
          /\ flash' = EepromCommit(eedata', flash)
          /\ now' = Add32(now, 10)
          /\ lastSaved' = entered
          /\ Log(<<"eepromCommit">>)
     ELSE UNCHANGED <<conf, eedata, flash, now, lastSaved, events>>
  /\ pc' = "autoConnect"
  /\ UNCHANGED <<led, save, custom_host, custom_apikey, wmTimeout, start, portalStart,
                 blinkStart, sleepUs, sensVars, netVars, srvVars, button, attended,
                 lowInFirstSecond, entered>>

\* line 158: wifiManager.autoConnect() tries the stored network and falls back
\* to the configuration portal
AutoConnect ==
  /\ pc = "autoConnect"
  /\ \E associated \in BOOLEAN :
       IF associated
       THEN /\ Log(<<"autoConnect", "autoConnectTrue">>)
            /\ pc' = "connect"
            /\ UNCHANGED portalStart
       ELSE /\ Log(<<"autoConnect">>)
            /\ portalStart' = now
            /\ pc' = "autoPortal"
  /\ UNCHANGED <<led, cfgVars, now, start, blinkStart, sleepUs, sensVars, netVars, srvVars, userVars>>

----------------------------------------------------------------------------
(* The configuration portal (WiFiManager), entered at line 136 or from line 158 *)

InPortal == pc \in {"configPortal", "autoPortal"}

\* time passes in the portal
PortalWait ==
  /\ InPortal
  /\ IF wmTimeout = 0
     THEN Elapsed(now, portalStart) < MaxPortalTicks * PortalTick
     ELSE Elapsed(now, portalStart) < wmTimeout * 1000
  /\ now' = Add32(now, PortalTick)
  /\ UNCHANGED <<pc, led, events, cfgVars, start, portalStart, blinkStart, sleepUs, sensVars,
                 netVars, srvVars, userVars>>

\* the portal's timeout passed: it returns false
PortalTimeout ==
  /\ InPortal
  /\ wmTimeout # 0
  /\ Elapsed(now, portalStart) >= wmTimeout * 1000
  /\ IF pc = "configPortal"
     THEN pc' = "saveCheck" /\ UNCHANGED events
     ELSE pc' = "sleep" /\ Log(<<"autoConnectFalse">>)
  /\ UNCHANGED <<led, cfgVars, timeVars, sensVars, netVars, srvVars, userVars>>

\* the operator submits the form and the device joins the network: the
\* parameters take the typed values, saveConfig() runs, the portal returns true.
\* The operator fills in the form once in a cycle.
PortalSubmit ==
  /\ InPortal
  /\ attended
  /\ ~Did("saveConfig")
  /\ \E e \in Entries :
       /\ entered' = e
       /\ custom_host' = ParamSet(e.host, HostCap)
       /\ custom_apikey' = ParamSet(e.key, ApikeyCap)
  /\ save' = TRUE
  /\ IF pc = "configPortal"
     THEN pc' = "saveCheck" /\ Log(<<"saveConfig">>)
     ELSE pc' = "connect" /\ Log(<<"saveConfig", "autoConnectTrue">>)
  /\ UNCHANGED <<led, conf, eedata, flash, wmTimeout, timeVars, sensVars, netVars,
                 srvVars, button, attended, lowInFirstSecond, lastSaved>>

\* the operator presses or releases the config button
ButtonChange ==
  /\ pc \in {"measure", "load", "window", "windowDelay"}
  /\ attended
  /\ button' = IF button = "HIGH" THEN "LOW" ELSE "HIGH"
  /\ lowInFirstSecond' = (lowInFirstSecond \/ (button' = "LOW" /\ now < 1000))
  /\ UNCHANGED <<pc, led, events, cfgVars, timeVars, sensVars, netVars, srvVars,
                 attended, entered, lastSaved>>

----------------------------------------------------------------------------
(* The uplink, lines 160-228 *)

\* lines 160-177 with client.connect given the portal parameter's value
ConnectParamHost ==
  /\ pc = "connect"
  /\ led' = "LOW"
  /\ request' = [request EXCEPT !.connectHost = custom_host]
  /\ \E connected \in BOOLEAN :
       IF connected
       THEN pc' = "request" /\ Log(<<"connect">>)
       ELSE pc' = "blink1" /\ Log(<<"connect", "connectFailed">>)
  /\ UNCHANGED <<cfgVars, timeVars, sensVars, ok, rx, line, srvVars, userVars>>

\* lines 160-177 with the result of client.connect not tested
ConnectNoCheck ==
  /\ pc = "connect"
  /\ led' = "LOW"
  /\ request' = [request EXCEPT !.connectHost = CStrAt(conf, HostOff)]
  /\ \E connected \in BOOLEAN :
       IF connected
       THEN pc' = "request" /\ Log(<<"connect">>)
       ELSE pc' = "request" /\ Log(<<"connect", "connectFailed">>)
  /\ UNCHANGED <<cfgVars, timeVars, sensVars, ok, rx, line, srvVars, userVars>>

\* lines 160-177: the LED goes out and client.connect(conf.host, port)
Connect ==
  /\ pc = "connect"
  /\ led' = "LOW"
  /\ request' = [request EXCEPT !.connectHost = CStrAt(conf, HostOff)]
  /\ \E connected \in BOOLEAN :
       IF connected
       THEN pc' = "request" /\ Log(<<"connect">>)
       ELSE pc' = "blink1" /\ Log(<<"connect", "connectFailed">>)
  /\ UNCHANGED <<cfgVars, timeVars, sensVars, ok, rx, line, srvVars, userVars>>

\* blink(times) called at position at, lines 63-74
BlinkCall(at, times) ==
  /\ pc = at
  /\ blinkStart' = now
  /\ now' = BlinkLoop(now, now, times)
  /\ led' = "LOW"
  /\ Log(<<IF times = 1 THEN "blink1" ELSE "blink2">>)
  /\ pc' = "reset"
  /\ UNCHANGED <<cfgVars, start, portalStart, sleepUs, sensVars, netVars, srvVars,
                 userVars>>

\* line 181
Blink1 == BlinkCall("blink1", 1)

\* line 225 with the pattern of line 181
Blink2Once == BlinkCall("blink2", 1)

\* line 225
Blink2 == BlinkCall("blink2", 2)

\* lines 182 and 226: ESP.reset()
Reset ==
  /\ pc = "reset"
  /\ Log(<<"reset">>)
  /\ pc' = "halted"
  /\ UNCHANGED <<led, cfgVars, timeVars, sensVars, netVars, srvVars, userVars>>

\* lines 186-212: the MAC address, the URL, client.print, delay(100), ok = false
SendRequest ==
  /\ pc = "request"
  /\ \E m \in Macs :
       request' = [request EXCEPT !.mac = m,
                                  !.url = Url(conf, m, temperature, humidity),
                                  !.hostHeader = Text(CStrAt(conf, HostOff)),
                                  !.sent = @ + 1]
  /\ now' = Add32(now, 100)
  /\ ok' = FALSE
  /\ Log(<<"request">>)
  /\ pc' = "readLoop"
  /\ UNCHANGED <<led, cfgVars, start, portalStart, blinkStart, sleepUs, sensVars, rx, line,
                 srvVars, userVars>>

\* line 213: while (client.available())
ReadLoop ==
  /\ pc = "readLoop"
  /\ IF rx # <<>>
     THEN pc' = "readLine" /\ line' = <<>>
     ELSE pc' = "checkOk" /\ UNCHANGED line
  /\ UNCHANGED <<led, events, cfgVars, timeVars, sensVars, request, ok, rx, srvVars,
                 userVars>>

\* lines 218-221, with the line readStringUntil returned; the String ends
\* with the pass of the loop
LineDone(l) ==
  /\ ok' = (ok \/ StartsWithOk(l))
  /\ line' = <<>>
  /\ pc' = "readLoop"

\* line 214: readStringUntil('\n') takes the next byte (the time it takes to
\* take a byte that is there is not counted)
ReadChar ==
  /\ pc = "readLine"
  /\ rx # <<>>
  /\ rx' = Tail(rx)
  /\ IF Head(rx) = LF
     THEN LineDone(line)
     ELSE line' = LineAdd(line, Head(rx)) /\ UNCHANGED <<ok, pc>>
  /\ UNCHANGED <<led, events, cfgVars, timeVars, sensVars, request, srvVars, userVars>>

\* line 214: no byte came for the Stream timeout; readStringUntil returns what
\* it has
ReadTimeout ==
  /\ pc = "readLine"
  /\ rx = <<>>
  /\ now' = Add32(now, ReadTimeoutMs)
  /\ gaps' = gaps + 1
  /\ LineDone(line)
  /\ UNCHANGED <<led, events, cfgVars, start, portalStart, blinkStart, sleepUs, sensVars,
                 request, rx, srvLine, srvOk, userVars>>

\* line 224
CheckOk ==
  /\ pc = "checkOk"
  /\ pc' = IF ok = FALSE THEN "blink2" ELSE "sleep"
  /\ UNCHANGED <<led, events, cfgVars, timeVars, sensVars, netVars, srvVars, userVars>>

\* line 240 with the interval converted to milliseconds instead of microseconds
SleepMillis == Mul32(Mul32(interval, 60), 1000)

\* line 240: interval * 60 * 1000000, in int arithmetic
SleepMicros == Mul32(Mul32(interval, 60), 1000000)

\* lines 236-240: delay(3000) and ESP.deepSleep
Sleep ==
  /\ pc = "sleep"
  /\ now' = Add32(now, 3000)
  /\ sleepUs' = SleepMicros
  /\ Log(<<"deepSleep">>)
  /\ pc' = "halted"
  /\ UNCHANGED <<led, cfgVars, start, portalStart, blinkStart, sensVars, netVars,
                 srvVars, userVars>>

\* what the server has sent so far, after one more byte c
Sent(c) ==
  /\ attended =>
       \/ c = "o" /\ srvLine = "bol" /\ ~srvOk
       \/ c = "k" /\ srvLine = "o"
       \/ c = LF /\ srvLine = "ok"
  /\ srvLine' = CASE c = LF -> "bol"
                  [] c = "o" /\ srvLine = "bol" -> "o"
                  [] c = "k" /\ srvLine = "o" -> "ok"
                  [] c # LF /\ srvLine = "ok" -> "ok"
                  [] OTHER -> "other"
  /\ srvOk' = (srvOk \/ srvLine' = "ok")

\* the server sends one more byte of its response while the client is in its
\* read loop.  With an operator at the device the server considered is the one
\* that answers ok.
ServerSend ==
  /\ pc \in {"readLoop", "readLine"}
  /\ Len(rx) < MaxRx
  /\ gaps <= MaxGaps
  /\ \E c \in Alphabet : Sent(c) /\ rx' = Append(rx, c)
  /\ UNCHANGED <<pc, led, events, cfgVars, timeVars, sensVars, request, ok, line, gaps,
                 userVars>>

\* a byte of the response arrives after the read loop was left: nothing reads it
ServerSendLate ==
  /\ pc = "checkOk"
  /\ gaps <= MaxGaps
  /\ \E c \in Alphabet : Sent(c)
  /\ UNCHANGED <<pc, led, events, cfgVars, timeVars, sensVars, netVars, gaps, userVars>>

\* delay(5000) after ESP.reset() and ESP.deepSleep(), lines 183, 227 and 241
SettleMs == 5000

\* ms after the call at which a requested reset or deep sleep takes effect
Latencies == {0, 4999}

\* lines 183, 227, 241 without the delay(5000)
SettledNoWait(latency) == latency < 0

\* the reset or the sleep takes effect while delay(5000) is still running
Settled(latency) == latency < SettleMs

\* the reset, or the deep sleep and its wake-up timer, takes effect and starts
\* the program again during the delay(5000) that follows the call; were the
\* delay to end first, setup() would go on with the statement after it: line 186
\* after line 183, line 236 after line 227, and loop() after line 241
Boot ==
  /\ pc = "halted"
  /\ \E latency \in Latencies :
       IF Settled(latency)
       THEN /\ pc' = "setup" /\ now' = 0 /\ led' = "LOW" /\ button' = "HIGH"
            /\ attended' \in BOOLEAN
            /\ save' = FALSE /\ conf' = Rep(NUL, ConfigSize) /\ eedata' = <<>>
            /\ custom_host' = <<>> /\ custom_apikey' = <<>> /\ wmTimeout' = 0
            /\ start' = 0 /\ portalStart' = 0 /\ blinkStart' = 0 /\ sleepUs' = 0
            /\ sensor' \in Readings /\ humidity' = 0 /\ temperature' = 0
            /\ request' = NoRequest /\ ok' = FALSE /\ rx' = <<>> /\ line' = <<>>
            /\ srvLine' = "bol" /\ srvOk' = FALSE /\ gaps' = 0
            /\ lowInFirstSecond' = FALSE /\ entered' = None
            /\ events' = <<>>
            /\ UNCHANGED <<flash, lastSaved>>
       ELSE /\ now' = Add32(now, SettleMs)
            /\ pc' = IF events[Len(events)] = "deepSleep" THEN "loop"
                     ELSE IF Did("request") THEN "sleep"
                     ELSE "request"
            /\ UNCHANGED <<led, events, cfgVars, start, portalStart, blinkStart, sleepUs,
                           sensVars, netVars, srvVars, userVars>>

----------------------------------------------------------------------------

Step ==
  \/ SetupBegin \/ Measure \/ LoadConfig \/ WindowCheck \/ WindowDelay
  \/ SaveCheck \/ AutoConnect \/ PortalWait \/ PortalTimeout
  \/ Connect \/ Blink1 \/ Blink2 \/ Reset \/ SendRequest
  \/ ReadLoop \/ ReadChar \/ ReadTimeout \/ CheckOk \/ Sleep \/ Boot

Next == Step \/ PortalSubmit \/ ButtonChange \/ ServerSend \/ ServerSendLate

Spec == Init /\ [][Next]_vars

\* the processor keeps running and time keeps passing; the operator, the
\* button and the server owe nothing
FairSpec == Spec /\ WF_vars(Step)

----------------------------------------------------------------------------
(* Properties *)

Last(q) == q[Len(q)]
Blinks == SelectSeq(events, LAMBDA e : e \in {"blink1", "blink2"})
Halted == pc = "halted"

\* C1: a response that contains a line beginning with ok, whenever its bytes
\* arrive, ends the cycle in deep sleep with ok set, no blink(2) and no reset.
C1_OkLineGivesSuccess ==
  (Halted /\ Did("request") /\ srvOk) =>
     /\ ok
     /\ ~Did("blink2")
     /\ ~Did("reset")
     /\ Last(events) = "deepSleep"

\* C2: a failed client.connect runs blink(1) and nothing else, a completed
\* exchange in which no line read began with ok runs blink(2) and nothing else;
\* each is followed by ESP.reset() and the cycle does not reach deep sleep.
C2_FailureCausesDistinct ==
  /\ (Did("connectFailed") /\ pc \in {"reset", "halted"}) =>
        /\ Blinks = <<"blink1">>
        /\ ~Did("request")
  /\ (Did("request") /\ ~ok /\ pc \in {"reset", "halted"}) =>
        /\ Blinks = <<"blink2">>
        /\ ~Did("connectFailed")
  /\ (Did("connectFailed") \/ (Did("request") /\ ~ok)) =>
        /\ pc # "sleep"
        /\ ~Did("deepSleep")
        /\ Halted => SubSeq(events, Len(events) - 1, Len(events)) \in
                       {<<"blink1", "reset">>, <<"blink2", "reset">>}

C2_Witness ==
  /\ Halted /\ Did("request") /\ ~ok /\ Blinks = <<"blink2">> /\ Last(events) = "reset"

\* C3: once saveConfig has fired in a cycle, the entered host and access key are
\* in conf and committed to flash before the cycle goes on to the server
\* connection, the sleep or the reset.
C3_EnteredValuesPersisted ==
  (Did("saveConfig") /\ pc \in {"connect", "request", "readLoop", "readLine", "checkOk",
                                "blink1", "blink2", "reset", "sleep", "halted"}) =>
     /\ CStrAt(conf, HostOff) = custom_host
     /\ CStrAt(conf, ApikeyOff) = custom_apikey
     /\ EepromGet(flash) = conf

C3_Witness == Did("saveConfig") /\ Did("eepromCommit") /\ pc = "connect"

Idx(e) == CHOOSE i \in 1..Len(events) : events[i] = e
InOrder(a, b) == Did(a) /\ Did(b) /\ Idx(a) < Idx(b)

\* C4 as stated: BUTTON LOW at any instant of the first second of the boot
\* takes the cycle into the portal before anything later happens.
C4_AssertedAnyTime ==
  (lowInFirstSecond /\ pc \notin {"measure", "load", "window", "windowDelay"}) =>
     Did("startConfigPortal")

\* C4: when a digitalRead(BUTTON) of the window loop returns LOW, the cycle sets
\* the timeout to 0 and enters the portal, the portal runs without timeout, and
\* autoConnect is not called before the portal has exited.
C4_SampledLowEntersPortal ==
  /\ Did("buttonLow") => InOrder("buttonLow", "setTimeout0")
                          /\ InOrder("setTimeout0", "startConfigPortal")
  /\ pc = "configPortal" => Did("buttonLow") /\ wmTimeout = 0 /\ ~Did("autoConnect")
  /\ (Did("buttonLow") /\ Did("autoConnect")) =>
        InOrder("startConfigPortal", "saveConfig") /\ InOrder("saveConfig", "autoConnect")

C4_Witness == Did("buttonLow") /\ Did("autoConnect") /\ pc = "connect"

\* what follows a false return of autoConnect
TimeoutNonFatal ==
  Did("autoConnectFalse") =>
     /\ pc \in {"sleep", "halted"}
     /\ Blinks = <<>>
     /\ ~Did("reset")
     /\ ~Did("connect")
     /\ request.sent = 0
     /\ Halted => Last(events) = "deepSleep"

\* C5 as stated: in every cycle autoConnect's portal is due to return once
\* 300 s have passed, and after the false return the cycle goes to deep sleep
\* with no blink, no reset and no request.
C5_EveryCycle ==
  /\ (pc = "autoPortal" /\ Elapsed(now, portalStart) >= 300000) =>
        /\ wmTimeout = 300
        /\ Elapsed(now, portalStart) < 300000 + PortalTick
  /\ TimeoutNonFatal

\* C5: the same in every cycle in which no digitalRead(BUTTON) returned LOW.
C5_CyclesWithoutButton ==
  /\ (pc = "autoPortal" /\ ~Did("buttonLow") /\ Elapsed(now, portalStart) >= 300000) =>
        /\ wmTimeout = 300
        /\ Elapsed(now, portalStart) < 300000 + PortalTick
  /\ TimeoutNonFatal

C5_Witness == Halted /\ Did("autoConnectFalse") /\ Last(events) = "deepSleep"

\* C6: every cycle reaches deep sleep or reset; the only place where it may stay
\* is a provisioning portal that runs without timeout.
C6_EveryCycleEnds ==
  (pc # "halted") ~> (pc = "halted" \/ (InPortal /\ wmTimeout = 0))

\* C7: a blink pattern that was started is followed by ESP.reset(), no later
\* than 5 minutes and one pattern period (times * 200 ms + 1000 ms) after it
\* started.
C7_ResetWithinBound ==
  /\ Blinks # <<>> =>
        /\ Len(Blinks) = 1
        /\ pc \in {"reset", "halted"}
        /\ Halted => Last(events) = "reset"
        /\ LET times == IF Blinks[1] = "blink1" THEN 1 ELSE 2
           IN  now - blinkStart <= 300000 + times * 200 + 1000
  /\ Did("reset") => Blinks # <<>>

C7_Witness == Halted /\ Did("blink1") /\ Did("reset") /\ now - blinkStart >= 300000

\* C8: after a host of at most 39 and an access key of at most 32 characters
\* were saved, every later load returns exactly those two strings.
C8_RoundTrip ==
  (Did("eepromGet") /\ lastSaved # None
     /\ Len(lastSaved.host) <= 39 /\ Len(lastSaved.key) <= 32) =>
     /\ CStrAt(conf, HostOff) = lastSaved.host
     /\ CStrAt(conf, ApikeyOff) = lastSaved.key

C8_Witness ==
  /\ Did("eepromGet") /\ ~Did("saveConfig") /\ pc = "window"
  /\ Len(lastSaved.host) = 39 /\ Len(lastSaved.key) = 32 /\ lastSaved # None

\* C9: humidity and temperature are each read once in a cycle, and every other
\* stage of the cycle comes after the two readings.
C9_MeasuredOnceAndFirst ==
  /\ Count("readHumidity") <= 1 /\ Count("readTemperature") <= 1
  /\ Len(events) >= 1 => events[1] = "readHumidity"
  /\ Len(events) >= 2 => events[2] = "readTemperature"
  /\ pc \notin {"setup", "measure"} =>
        /\ Count("readHumidity") = 1 /\ Count("readTemperature") = 1
        /\ humidity = sensor.H /\ temperature = sensor.T
  /\ pc \in {"setup", "measure"} =>
        /\ eedata = <<>> /\ wmTimeout = 0 /\ request = NoRequest /\ ~save

C9_Witness == Halted /\ Did("request") /\ Did("eepromGet") /\ Did("autoConnect")

IdText(m) == CASE m = <<170, 187, 204, 221, 238, 255>> -> "AABBCCDDEEFF"
               [] m = <<0, 1, 10, 43, 9, 160>> -> "00010A2B09A0"

ValText(r) == CASE r = 23450 -> "23.45" [] r = 56100 -> "56.10"
                [] r = -5204 -> "-5.20" [] r = 99996 -> "100.00"

\* C10: the request carries {<id>.T:<temperature>,<id>.H:<humidity>} with the
\* readings of this cycle, two decimals each; 23.45, 56.10 and AABBCCDDEEFF give
\* {AABBCCDDEEFF.T:23.45,AABBCCDDEEFF.H:56.10}.
C10_Payload ==
  Did("request") =>
     /\ request.url = UrlHead(conf) \o "{" \o IdText(request.mac) \o ".T:"
                        \o ValText(sensor.T) \o "," \o IdText(request.mac) \o ".H:"
                        \o ValText(sensor.H) \o "}"
     /\ (request.mac = <<170, 187, 204, 221, 238, 255>>
           /\ sensor = [T |-> 23450, H |-> 56100]) =>
          request.url = UrlHead(conf) \o "{AABBCCDDEEFF.T:23.45,AABBCCDDEEFF.H:56.10}"

C10_Witness ==
  /\ Did("request") /\ request.mac = <<170, 187, 204, 221, 238, 255>>
  /\ sensor = [T |-> 23450, H |-> 56100]

\* C11: the LED is HIGH from line 83 until autoConnect has returned true and
\* line 160 turns it off; it is off when a cycle that associated enters deep
\* sleep and on when a cycle whose autoConnect returned false enters deep sleep.
C11_LedHeldUntilAssociated ==
  /\ (pc # "setup" /\ ~Did("autoConnectTrue")) => led = "HIGH"
  /\ pc = "connect" => led = "HIGH"
  /\ Did("connect") => led = "LOW"
  /\ (Halted /\ Did("autoConnectTrue") /\ Last(events) = "deepSleep") => led = "LOW"
  /\ (Halted /\ Did("autoConnectFalse")) => (led = "HIGH" /\ Last(events) = "deepSleep")

C11_Witness ==
  Halted /\ Did("autoConnectTrue") /\ Last(events) = "deepSleep" /\ led = "LOW"

\* a NUL lies within the length bytes of mem that start at offset off
Terminated(mem, off, length) == \E i \in 1..length : mem[off + i] = NUL

\* C12: once the record has been loaded from storage, host has a NUL within
\* its 40 bytes and apikey has a NUL within its 33 bytes.
C12_FieldsTerminated ==
  Did("eepromGet") =>
     /\ Terminated(conf, HostOff, HostCap)
     /\ Terminated(conf, ApikeyOff, ApikeyCap)

\* C13: in a cycle in which saveConfig has not run, conf is what EEPROM.get
\* loaded and the storage has not been written; in any cycle the storage is
\* written at most once.
C13_MutatedOnlyOnSave ==
  /\ Count("eepromCommit") <= 1
  /\ (Did("eepromGet") /\ ~Did("saveConfig")) =>
        /\ conf = EepromGet(eedata)
        /\ eedata = flash
        /\ ~Did("eepromCommit")
  /\ Did("eepromCommit") => Did("saveConfig")

C13_Witness ==
  Halted /\ Did("request") /\ ~Did("saveConfig") /\ lastSaved # None

\* C14: a cycle that ends in deep sleep, after a request that was accepted or
\* after a false autoConnect, asks for 300000000 microseconds; neither product
\* of interval * 60 * 1000000 leaves the 32-bit int range; 5 * 60 * 1000 is
\* 300000; and the program starts again with save cleared.
C14_SleepFiveMinutes ==
  /\ (Halted /\ Last(events) = "deepSleep") => sleepUs = 300000000
  /\ Did("deepSleep") => (Did("autoConnectFalse") \/ ok)
  /\ interval <= MaxInt32 \div 60
  /\ interval * 60 <= MaxInt32 \div 1000000
  /\ SleepMicros = 300 * 1000000
  /\ BlinkLimit = 300000
  /\ pc = "setup" => (~save /\ sleepUs = 0)

C14_Witness ==
  Halted /\ Last(events) = "deepSleep" /\ Did("autoConnectFalse") /\ sleepUs = 300000000

\* C15: with every requested reset or sleep taking effect within the 5 s
\* wait that follows it, loop() is never entered, and setup() is left only
\* through ESP.deepSleep or ESP.reset.
C15_LoopUnreachable ==
  /\ pc # "loop"
  /\ Halted => Last(events) \in {"deepSleep", "reset"}
  /\ \A latency \in Latencies : latency < SettleMs

\* a cycle that began after an earlier cycle's sleep or reset took effect
C15_Witness == pc = "measure" /\ lastSaved # None /\ events = <<>>

\* C16: a cycle sends at most one request, and only after autoConnect returned
\* true and client.connect succeeded; once blink(1) has signalled a failed
\* connection no request is written.
C16_OneRequestAfterConnect ==
  /\ request.sent <= 1
  /\ Count("request") = request.sent
  /\ Did("request") =>
        /\ InOrder("autoConnectTrue", "connect")
        /\ InOrder("connect", "request")
        /\ ~Did("connectFailed")
  /\ (Did("connectFailed") \/ Did("blink1")) => request.sent = 0

C16_Witness ==
  Halted /\ Did("connectFailed") /\ Did("blink1") /\ request.sent = 0

\* the record in non-volatile storage
Persisted == EepromGet(flash)

\* C17: the host of client.connect, the Host header and the apikey of the URL
\* are those of conf, and conf equals the record in storage; values entered in
\* the portal in this cycle are the ones used if they were committed in this
\* cycle, and otherwise the ones loaded at boot are used.
C17_RequestUsesPersistedRecord ==
  /\ Did("connect") =>
        /\ conf = Persisted
        /\ request.connectHost = CStrAt(Persisted, HostOff)
  /\ Did("request") =>
        /\ request.hostHeader = Text(CStrAt(Persisted, HostOff))
        /\ request.url = Url(Persisted, request.mac, temperature, humidity)
  /\ (Did("connect") /\ Did("saveConfig") /\ Did("eepromCommit")) =>
        /\ request.connectHost = custom_host
        /\ CStrAt(conf, ApikeyOff) = custom_apikey
  /\ (Did("connect") /\ Did("saveConfig") /\ ~Did("eepromCommit")) =>
        /\ request.connectHost = CStrAt(EepromGet(eedata), HostOff)
        /\ eedata = flash

C17_Witness ==
  /\ Did("request") /\ Did("eepromCommit")
  /\ request.connectHost = ParamSet(entered.host, HostCap)
  /\ request.connectHost # entered.host

====
